---- MODULE Spec2Model ----
(***************************************************************************)
(* Model of keras_retinanet/bin/predict.py (RetinaNetWrapper.predict,      *)
(* RetinaNetWrapper.predict_large_image, main) and of the coordinate       *)
(* helpers of keras_retinanet/utils/geo.py.                                *)
(*                                                                         *)
(* Numbers.  Pixel coordinates are integers.  Geographic values are        *)
(* fixed-point integers with GeoScale units per degree (Deg(90) is the     *)
(* literal 90 of the source).  Scores are in hundredths (0.05 is 5).       *)
(* Detector boxes are drawn with x1+x2 and y1+y2 even, so the centroid     *)
(* (d[0]+d[2])/2 of the source is integral and \div is exact.              *)
(***************************************************************************)
EXTENDS Integers, Sequences, FiniteSets, TLC

VARIABLES
    pc,               \* position of the run inside main / predict_large_image
    image_path,       \* args.image_path, as a sequence of path tokens
    save_path,        \* args.save_path ("None" when not given)
    raster,           \* the raster file on disk: width, height, geo transform
    score_threshold,  \* self.score_threshold
    max_detections,   \* self.max_detections
    resolution,       \* args.res, in tenths
    dataset,          \* the opened raster handle ("None" before it is opened)
    size_column,      \* predict_large_image: size_column
    size_row,         \* predict_large_image: size_row
    i,                \* origin row of the tile being scanned
    j,                \* origin column of the tile being scanned
    raw_out,          \* predict: what predict_on_batch returned (scaled boxes)
    image_boxes,      \* boxes returned by predict, offset in place by the scan
    image_scores,     \* scores returned by predict
    image_labels,     \* labels returned by predict
    all_detections,   \* predict_large_image: all_detections
    calls,            \* the readTileFunc / self.predict calls made so far
    csv_file,         \* rows of the record file ("absent" until it is created)
    vis_file,         \* "absent" until cv2.imwrite wrote the preview
    stdout,           \* messages printed
    exit_code         \* process exit status (-1 until main ends)

vars == <<pc, image_path, save_path, raster, score_threshold, max_detections,
          resolution, dataset, size_column, size_row, i, j, raw_out,
          image_boxes, image_scores, image_labels, all_detections, calls,
          csv_file, vis_file, stdout, exit_code>>

---------------------------------------------------------------------------
(* Bounds of the model *)

\* A raster has at most MaxTiles tiles.
MaxTiles == 4

\* predict_on_batch returns at most MaxRaw raw detections (predict alone).
MaxRaw == 3

\* Fixed-point units per degree.
GeoScale == 100

---------------------------------------------------------------------------
(* Program constants *)

tilesize_row == 1025
tilesize_col == 1025

Deg(d) == d * GeoScale

---------------------------------------------------------------------------
(* Sequence helpers *)

Min(a, b) == IF a < b THEN a ELSE b

RECURSIVE SumSeq(_)
SumSeq(s) == IF s = <<>> THEN 0 ELSE Head(s) + SumSeq(Tail(s))

\* the sequences over S of length at most MaxRaw
Seq0(S) == UNION {[1..n -> S] : n \in 0..MaxRaw}

\* numpy fancy indexing a[idx] with 0-based indices
Take(a, idx) == [k \in 1..Len(idx) |-> a[idx[k] + 1]]

---------------------------------------------------------------------------
(* Paths: a path is a sequence of tokens, "/" and "." being the separators *)

LastIndexOf(s, t) ==
    IF \E k \in 1..Len(s) : s[k] = t
    THEN CHOOSE k \in 1..Len(s) : s[k] = t /\ \A m \in (k+1)..Len(s) : s[m] # t
    ELSE 0

FirstIndexOf(s, t) ==
    IF \E k \in 1..Len(s) : s[k] = t
    THEN CHOOSE k \in 1..Len(s) : s[k] = t /\ \A m \in 1..(k-1) : s[m] # t
    ELSE 0

\* os.path.basename
basename(path) == SubSeq(path, LastIndexOf(path, "/") + 1, Len(path))

\* str.split("."): the components between the dots, empty ones included
RECURSIVE split(_)
split(s) ==
    LET k == FirstIndexOf(s, ".")
    IN  IF k = 0 THEN <<s>>
        ELSE <<SubSeq(s, 1, k - 1)>> \o split(SubSeq(s, k + 1, Len(s)))

\* os.path.basename(image_path).split(".")[-1]
file_type(path) == LET parts == split(basename(path)) IN parts[Len(parts)]

TiffTypes == {<<"tif">>, <<"TIF">>, <<"tiff">>, <<"TIFF">>}
DimTypes  == {<<"dim">>, <<"DIM">>}

---------------------------------------------------------------------------
(* keras_retinanet/utils/geo.py *)

\* A written value: a number, or the latitude / longitude that utmToLatLng
\* computes from (zone, easting, northing).  The series of utmToLatLng is
\* not evaluated: its result is kept as the term it is applied to.
Num(n) == [fn |-> "num", args |-> <<n>>]

utmToLatLng(zone, easting, northing) ==
    << [fn |-> "utm_latitude",  args |-> <<zone, easting, northing>>],
       [fn |-> "utm_longitude", args |-> <<zone, easting, northing>>] >>

xyToLatLonTiff(ds, x, y) ==
    LET gt    == ds.geo
        pos_x == gt.ulx + (x * gt.xres)
        pos_y == gt.uly + (y * gt.yres)
    IN  <<pos_x, pos_y>>

\* The scene geocoding of a product is a lookup owned by the product; it is
\* modelled by the same linear map, returned as (longitude, latitude).
xyToLatLonDim(ds, x, y) ==
    LET gt  == ds.geo
        lon == gt.ulx + (x * gt.xres)
        lat == gt.uly + (y * gt.yres)
    IN  <<lon, lat>>

xyToLatLonFunc(ds, x, y) ==
    IF ds.kind = "tif" THEN xyToLatLonTiff(ds, x, y) ELSE xyToLatLonDim(ds, x, y)

---------------------------------------------------------------------------
(* RetinaNetWrapper.predict *)

\* A raw detector output: parallel sequences (the batch axis is dropped),
\* with the scale resize_image applied to the tile.
RawOut(boxes, scores, labels, scale) ==
    [boxes |-> boxes, scores |-> scores, labels |-> labels, scale |-> scale]

NoRawOut == RawOut(<<>>, <<>>, <<>>, 1)

\* boxes /= scale
Unscale(boxes, scale) ==
    [k \in 1..Len(boxes) |-> [c \in 1..4 |-> boxes[k][c] \div scale]]

\* a threshold that lets a score equal to it through
RECURSIVE WhereAtLeast(_, _, _)
WhereAtLeast(scores, thr, k) ==
    IF k > Len(scores) THEN <<>>
    ELSE (IF scores[k] >= thr THEN <<k - 1>> ELSE <<>>) \o WhereAtLeast(scores, thr, k + 1)

\* np.where(scores > thr)[0]: the 0-based positions, ascending
RECURSIVE Where(_, _, _)
Where(scores, thr, k) ==
    IF k > Len(scores) THEN <<>>
    ELSE (IF scores[k] > thr THEN <<k - 1>> ELSE <<>>) \o Where(scores, thr, k + 1)

\* np.argsort(-scores): every order numpy's (unstable) sort may return, as
\* 0-based positions
Argsort(scores) ==
    LET n == Len(scores)
    IN  { p \in [1..n -> 0..(n - 1)] :
            /\ \A a, b \in 1..n : a # b => p[a] # p[b]
            /\ \A a \in 1..(n - 1) : -scores[p[a] + 1] <= -scores[p[a + 1] + 1] }

\* s[:n]
Prefix(s, n) == SubSeq(s, 1, Min(n, Len(s)))

\* The results predict may return for one detector output
predict(raw, thr, maxdet) ==
    LET boxes   == Unscale(raw.boxes, raw.scale)
        indices == Where(raw.scores, thr, 1)
        scores  == Take(raw.scores, indices)
    IN  { [image_boxes  |-> Take(boxes, Take(indices, scores_sort)),
           image_scores |-> Take(scores, scores_sort),
           image_labels |-> Take(raw.labels, Take(indices, scores_sort))] :
          scores_sort \in { Prefix(order, maxdet) : order \in Argsort(scores) } }

---------------------------------------------------------------------------
(* RetinaNetWrapper.predict_large_image: the tile windows and the rows *)

\* rows = tilesize_row if i + tilesize_row < size_row else size_row - i
TileRows(ti, height) ==
    IF ti + tilesize_row < height THEN tilesize_row ELSE height - ti

\* a window that is not clamped at the right edge
TileColsUnclamped(tj, width) == tilesize_col

\* cols = tilesize_col if j + tilesize_col < size_column else size_column - j
TileCols(tj, width) ==
    IF tj + tilesize_col < width THEN tilesize_col ELSE width - tj

\* the offsets of the two axes exchanged
AddOffsetSwapped(boxes, tj, ti) ==
    [k \in 1..Len(boxes) |->
        <<boxes[k][1] + ti, boxes[k][2] + tj, boxes[k][3] + ti, boxes[k][4] + tj>>]

\* image_boxes[..., 0] += j ... image_boxes[..., 3] += i
AddOffset(boxes, tj, ti) ==
    [k \in 1..Len(boxes) |->
        <<boxes[k][1] + tj, boxes[k][2] + ti, boxes[k][3] + tj, boxes[k][4] + ti>>]

\* if lx > 90 or lx < -90 or ly > 180 or ly < -180
NeedsUtm(lx, ly) == lx > Deg(90) \/ lx < Deg(-90) \/ ly > Deg(180) \/ ly < Deg(-180)

\* the first row: the extent of the image
ExtentRow(ds, d) ==
    LET ul == xyToLatLonFunc(ds, d[1], d[2])
        br == xyToLatLonFunc(ds, d[3], d[4])
    IN  IF NeedsUtm(ul[1], ul[2])
        THEN utmToLatLng(48, ul[1], ul[2]) \o utmToLatLng(48, br[1], br[2])
        ELSE <<Num(ul[1]), Num(ul[2]), Num(br[1]), Num(br[2])>>

\* a detection row: centroid, then width and height times the resolution
PointRow(ds, d, res) ==
    LET l == xyToLatLonFunc(ds, (d[1] + d[3]) \div 2, (d[2] + d[4]) \div 2)
        c == IF NeedsUtm(l[1], l[2])
             THEN utmToLatLng(48, l[1], l[2])
             ELSE <<Num(l[1]), Num(l[2])>>
    IN  c \o <<Num((d[3] - d[1]) * res), Num((d[4] - d[2]) * res)>>

\* the rows without the last detection
RowsWithoutLast(ds, dets, res) ==
    [k \in 1..(Len(dets) - 1) |->
        IF k = 1 THEN ExtentRow(ds, dets[k]) ELSE PointRow(ds, dets[k], res)]

\* for i, d in enumerate(all_detections): the rows written
Rows(ds, dets, res) ==
    [k \in 1..Len(dets) |->
        IF k = 1 THEN ExtentRow(ds, dets[k]) ELSE PointRow(ds, dets[k], res)]

---------------------------------------------------------------------------
(* Inputs *)

Paths ==
    { <<"data", "/", "scene", ".", "tif">>,
      <<"scene", ".", "TIF">>,
      <<"scene", ".", "tiff">>,
      <<"scene", ".", "v2", ".", "TIFF">>,
      <<"scene", ".", "dim">>,
      <<"scene", ".", "DIM">>,
      <<"tif">>,
      <<"scene", ".", "png">>,
      <<"scene", ".", "Tif">>,
      <<"scene", ".", "tif", ".", "bak">>,
      <<"out", ".", "tif", "/", "scene">>,
      <<"scene">>,
      <<"scene", ".">> }

MainPath == <<"data", "/", "scene", ".", "tif">>

\* the widths (heights) that need exactly k tiles: one pixel into the last
\* tile, one pixel short of a full last tile, and a full last tile
AxisSizes(k, tile) == {(k - 1) * tile + 1, k * tile - 1, k * tile}

TilesAlong(size, tile) == (size + tile - 1) \div tile

NumTiles(width, height) ==
    TilesAlong(width, tilesize_col) * TilesAlong(height, tilesize_row)

Rasters ==
    { r \in
        (UNION {AxisSizes(k, tilesize_col) : k \in 1..MaxTiles}) \X
        (UNION {AxisSizes(k, tilesize_row) : k \in 1..MaxTiles}) :
        NumTiles(r[1], r[2]) <= MaxTiles }

GeoTransform(ulx, xres, uly, yres) ==
    [ulx |-> ulx, xres |-> xres, xskew |-> 0, uly |-> uly, yskew |-> 0, yres |-> yres]

\* longitude 105, latitude 20, a hundredth of a degree per pixel
GeoDegrees == GeoTransform(Deg(105), 1, Deg(20), -1)
\* UTM metres: easting 500000, northing 2200000, 3 m per pixel
GeoUtm     == GeoTransform(Deg(500000), Deg(3), Deg(2200000), Deg(-3))
\* longitude 85, latitude -85: degrees, near the limits of the range
GeoEdge    == GeoTransform(Deg(85), 1, Deg(-85), -1)

GeoTransforms == {GeoDegrees, GeoUtm, GeoEdge}

Scales == {1, 2}

\* What the detector finds in a tile, in tile pixels: boxes, scores, labels
TileDetections ==
    { [boxes |-> <<>>, scores |-> <<>>, labels |-> <<>>],
      [boxes |-> << <<0, 0, 10, 10>> >>, scores |-> <<60>>, labels |-> <<0>>],
      [boxes  |-> << <<10, 10, 50, 50>>, <<1020, 1020, 1030, 1030>>, <<-6, -4, 6, 4>> >>,
       scores |-> <<30, 60, 90>>,
       labels |-> <<1, 0, 2>>] }

\* the same, as predict_on_batch returns it for the resized tile
Scaled(det, scale) ==
    RawOut([k \in 1..Len(det.boxes) |-> [c \in 1..4 |-> det.boxes[k][c] * scale]],
           det.scores, det.labels, scale)

RawOutputs == { Scaled(det, scale) : det \in TileDetections, scale \in Scales }

ScoreThresholds == {5, 50}
MaxDetections   == {2, 100}
Resolutions     == {25}
SavePaths       == {"None", "out"}

---------------------------------------------------------------------------
(* The run: main calling predict_large_image.  Every spelling of the file  *)
(* type is run on the single-tile rasters; MainPath on every raster.       *)

Init ==
    /\ pc = "start"
    /\ image_path \in Paths
    /\ save_path \in SavePaths
    /\ raster \in { [width |-> r[1], height |-> r[2], geo |-> g] :
                      r \in Rasters, g \in GeoTransforms }
    /\ image_path = MainPath \/ NumTiles(raster.width, raster.height) = 1
    /\ score_threshold \in ScoreThresholds
    /\ max_detections \in MaxDetections
    /\ resolution \in Resolutions
    /\ dataset = [kind |-> "None", geo |-> GeoTransform(0, 0, 0, 0)]
    /\ size_column = 0
    /\ size_row = 0
    /\ i = 0
    /\ j = 0
    /\ raw_out = NoRawOut
    /\ image_boxes = <<>>
    /\ image_scores = <<>>
    /\ image_labels = <<>>
    /\ all_detections = <<>>
    /\ calls = <<>>
    /\ csv_file = [exists |-> FALSE, rows |-> <<>>]
    /\ vis_file = FALSE
    /\ stdout = <<>>
    /\ exit_code = -1

inputs == <<image_path, save_path, raster, score_threshold, max_detections, resolution>>
files  == <<csv_file, vis_file>>
locals == <<raw_out, image_boxes, image_scores, image_labels>>

\* lines 139-180, a supported file type: open the raster, read the preview
OpenRaster ==
    /\ pc = "start"
    /\ file_type(image_path) \in TiffTypes \cup DimTypes
    /\ dataset' = [kind |-> IF file_type(image_path) \in TiffTypes THEN "tif" ELSE "dim",
                   geo  |-> raster.geo]
    /\ size_column' = raster.width
    /\ size_row' = raster.height
    /\ all_detections' = << <<0, 0, raster.width - 1, raster.height - 1>> >>
    /\ i' = 0
    /\ j' = 0
    /\ pc' = "scan"
    /\ UNCHANGED <<inputs, locals, calls, files, stdout, exit_code>>

\* lines 143-178: the raster cannot be opened, or the preview cannot be read
OpenFails ==
    /\ pc = "start"
    /\ file_type(image_path) \in TiffTypes \cup DimTypes
    /\ pc' = "raised"
    /\ UNCHANGED <<inputs, locals, dataset, size_column, size_row, i, j,
                   all_detections, calls, files, stdout, exit_code>>

\* the message is printed but the return is missing: the scan starts
UnsupportedFallsThrough ==
    /\ pc = "start"
    /\ file_type(image_path) \notin TiffTypes \cup DimTypes
    /\ stdout' = Append(stdout, <<"File type not supported", file_type(image_path)>>)
    /\ dataset' = [kind |-> "tif", geo |-> raster.geo]
    /\ size_column' = raster.width
    /\ size_row' = raster.height
    /\ all_detections' = << <<0, 0, raster.width - 1, raster.height - 1>> >>
    /\ pc' = "scan"
    /\ UNCHANGED <<inputs, locals, i, j, calls, files, exit_code>>

\* lines 158-160: print("File type %s not supported"), return
Unsupported ==
    /\ pc = "start"
    /\ file_type(image_path) \notin TiffTypes \cup DimTypes
    /\ stdout' = Append(stdout, <<"File type not supported", file_type(image_path)>>)
    /\ pc' = "returned"
    /\ UNCHANGED <<inputs, locals, dataset, size_column, size_row, i, j,
                   all_detections, calls, files, exit_code>>

\* lines 181-211: one iteration of the scan: clamp the window, read the
\* tile, run predict, offset the boxes, append them.  The boxes drawn on the
\* preview (lines 209-211) are not part of the state.
ScanTile ==
    /\ pc = "scan"
    /\ \E raw \in RawOutputs :
       \E out \in predict(raw, score_threshold, max_detections) :
          LET rows == TileRows(i, size_row)
              cols == TileCols(j, size_column)
          IN  /\ calls' = Append(calls, [xLeft |-> j, yTop |-> i,
                                         sizeX |-> cols, sizeY |-> rows,
                                         boxes |-> out.image_boxes])
              /\ image_boxes' = AddOffset(out.image_boxes, j, i)
              /\ image_scores' = out.image_scores
              /\ image_labels' = out.image_labels
              /\ all_detections' = all_detections \o image_boxes'
    /\ IF j + tilesize_col < size_column
       THEN /\ j' = j + tilesize_col
            /\ i' = i
            /\ pc' = "scan"
       ELSE /\ j' = 0
            /\ i' = i + tilesize_row
            /\ pc' = IF i + tilesize_row < size_row THEN "scan" ELSE "write"
    /\ UNCHANGED <<inputs, raw_out, dataset, size_column, size_row, files,
                   stdout, exit_code>>

\* a failed tile is skipped and the scan goes on
TileSkipped ==
    /\ pc = "scan"
    /\ IF j + tilesize_col < size_column
       THEN /\ j' = j + tilesize_col
            /\ i' = i
            /\ pc' = "scan"
       ELSE /\ j' = 0
            /\ i' = i + tilesize_row
            /\ pc' = IF i + tilesize_row < size_row THEN "scan" ELSE "write"
    /\ UNCHANGED <<inputs, locals, dataset, size_column, size_row,
                   all_detections, calls, files, stdout, exit_code>>

\* lines 186-199: reading the tile or the inference raises
TileFails ==
    /\ pc = "scan"
    /\ pc' = "raised"
    /\ UNCHANGED <<inputs, locals, dataset, size_column, size_row, i, j,
                   all_detections, calls, files, stdout, exit_code>>

\* lines 213-232: write the record file, then the preview
WriteRecords ==
    /\ pc = "write"
    /\ save_path # "None"
    /\ csv_file' = [exists |-> TRUE, rows |-> Rows(dataset, all_detections, resolution)]
    /\ vis_file' = TRUE
    /\ pc' = "returned"
    /\ UNCHANGED <<inputs, locals, dataset, size_column, size_row, i, j,
                   all_detections, calls, stdout, exit_code>>

\* line 213: os.path.join(None, ...) raises
WriteFails ==
    /\ pc = "write"
    /\ save_path = "None"
    /\ pc' = "raised"
    /\ UNCHANGED <<inputs, locals, dataset, size_column, size_row, i, j,
                   all_detections, calls, files, stdout, exit_code>>

\* main, lines 284-287: predict_large_image returned, the process ends
MainReturns ==
    /\ pc = "returned"
    /\ exit_code' = 0
    /\ pc' = "exited"
    /\ UNCHANGED <<inputs, locals, dataset, size_column, size_row, i, j,
                   all_detections, calls, files, stdout>>

\* main: an exception reaches the top level, the process ends
MainRaises ==
    /\ pc = "raised"
    /\ exit_code' = 1
    /\ pc' = "exited"
    /\ UNCHANGED <<inputs, locals, dataset, size_column, size_row, i, j,
                   all_detections, calls, files, stdout>>

Next ==
    \/ OpenRaster
    \/ OpenFails
    \/ Unsupported
    \/ ScanTile
    \/ TileFails
    \/ WriteRecords
    \/ WriteFails
    \/ MainReturns
    \/ MainRaises

Spec == Init /\ [][Next]_vars

---------------------------------------------------------------------------
(* RetinaNetWrapper.predict alone, on every detector output of the bounds *)

ScoreValues == {1, 4, 5, 60}
LabelValues == {0, 1}

\* detection k of an output has its own box, so that it can be told apart
RawInputs ==
    { RawOut([k \in 1..n |-> [c \in 1..4 |-> (IF c <= 2 THEN 2 * k ELSE 2 * k + 10) * scale]],
             scores, labels, scale) :
      <<n, scale, scores, labels>> \in
        { t \in (0..MaxRaw) \X Scales \X Seq0(ScoreValues) \X Seq0(LabelValues) :
            Len(t[3]) = t[1] /\ Len(t[4]) = t[1] } }

InitPredict ==
    /\ pc = "predict"
    /\ image_path = MainPath
    /\ save_path = "None"
    /\ raster = [width |-> 1, height |-> 1, geo |-> GeoDegrees]
    /\ score_threshold \in ScoreThresholds
    /\ max_detections \in 0..MaxRaw
    /\ resolution \in Resolutions
    /\ dataset = [kind |-> "None", geo |-> GeoTransform(0, 0, 0, 0)]
    /\ size_column = 0
    /\ size_row = 0
    /\ i = 0
    /\ j = 0
    /\ raw_out \in RawInputs
    /\ image_boxes = <<>>
    /\ image_scores = <<>>
    /\ image_labels = <<>>
    /\ all_detections = <<>>
    /\ calls = <<>>
    /\ csv_file = [exists |-> FALSE, rows |-> <<>>]
    /\ vis_file = FALSE
    /\ stdout = <<>>
    /\ exit_code = -1

\* lines 115-133
Predict ==
    /\ pc = "predict"
    /\ \E out \in predict(raw_out, score_threshold, max_detections) :
          /\ image_boxes' = out.image_boxes
          /\ image_scores' = out.image_scores
          /\ image_labels' = out.image_labels
    /\ pc' = "predicted"
    /\ UNCHANGED <<inputs, raw_out, dataset, size_column, size_row, i, j,
                   all_detections, calls, files, stdout, exit_code>>

NextPredict == Predict

SpecPredict == InitPredict /\ [][NextPredict]_vars

---------------------------------------------------------------------------
(* Vocabulary of the properties *)

\* the scan has read, inferred and accumulated every tile of the raster
ScanComplete == Len(calls) = NumTiles(size_column, size_row)

\* the column intervals and the row intervals of the windows read so far
ColumnWindows == { <<calls[k].xLeft, calls[k].sizeX>> : k \in 1..Len(calls) }
RowWindows    == { <<calls[k].yTop, calls[k].sizeY>> : k \in 1..Len(calls) }

\* the windows read in the row of tiles at yTop, the columns at xLeft
WidthsOfRow(yTop) ==
    LET InRow(c) == c.yTop = yTop
        row == SelectSeq(calls, InRow)
    IN  [k \in 1..Len(row) |-> row[k].sizeX]
HeightsOfColumn(xLeft) ==
    LET InColumn(c) == c.xLeft = xLeft
        column == SelectSeq(calls, InColumn)
    IN  [k \in 1..Len(column) |-> column[k].sizeY]

\* intervals <<start, size>> that split [0, total) with no overlap and no gap:
\* none is empty, they start at 0, step, 2 step, ..., each ends where another
\* starts or at total
Partitions(intervals, total, step) ==
    /\ \A iv \in intervals : iv[2] >= 1 /\ iv[1] % step = 0 /\ iv[1] + iv[2] <= total
    /\ \E iv \in intervals : iv[1] = 0
    /\ \A iv, iw \in intervals : iv[1] = iw[1] => iv = iw
    /\ \A iv \in intervals :
          \/ iv[1] + iv[2] = total
          \/ \E iw \in intervals : iw[1] = iv[1] + iv[2]

\* the number of windows read that contain the pixel (x, y)
Covering(x, y) ==
    Cardinality({ k \in 1..Len(calls) :
                    /\ calls[k].xLeft <= x /\ x < calls[k].xLeft + calls[k].sizeX
                    /\ calls[k].yTop <= y /\ y < calls[k].yTop + calls[k].sizeY })

\* the pixels next to a tile border or to the raster border
BorderPixels(total, step) ==
    { v \in UNION { {k * step - 1, k * step, k * step + 1} : k \in 0..MaxTiles + 1 } :
        0 <= v /\ v < total } \cup {total - 1}

\* C1: the clamped tile windows tile the raster exactly: every window is
\* min(T, W - j) wide and min(T, H - i) high and not empty; once the scan is
\* complete the widths of every row of tiles sum to W, the heights of every
\* column of tiles sum to H, the column intervals split [0, W) and the row
\* intervals split [0, H) with no overlap and no gap, every pair of them was
\* read exactly once, and every pixel at a border lies in exactly one window.
C1_TilesPartitionRaster ==
    /\ \A k \in 1..Len(calls) :
          /\ calls[k].sizeX = Min(tilesize_col, size_column - calls[k].xLeft)
          /\ calls[k].sizeY = Min(tilesize_row, size_row - calls[k].yTop)
          /\ calls[k].sizeX >= 1
          /\ calls[k].sizeY >= 1
    /\ (pc = "write") =>
          /\ ScanComplete
          /\ \A k \in 1..Len(calls) :
                /\ SumSeq(WidthsOfRow(calls[k].yTop)) = size_column
                /\ SumSeq(HeightsOfColumn(calls[k].xLeft)) = size_row
          /\ Partitions(ColumnWindows, size_column, tilesize_col)
          /\ Partitions(RowWindows, size_row, tilesize_row)
          /\ Len(calls) = Cardinality(ColumnWindows) * Cardinality(RowWindows)
          /\ \A a, b \in 1..Len(calls) :
                (calls[a].xLeft = calls[b].xLeft /\ calls[a].yTop = calls[b].yTop) => a = b
          /\ \A x \in BorderPixels(size_column, tilesize_col) :
             \A y \in BorderPixels(size_row, tilesize_row) : Covering(x, y) = 1

\* a four-tile raster whose last column is one pixel short and whose last row
\* is one pixel high has been scanned
C1_Witness ==
    /\ pc = "write"
    /\ size_column = 2 * tilesize_col - 1
    /\ size_row = tilesize_row + 1
    /\ Len(calls) = 4
    /\ calls[4].sizeX = tilesize_col - 1
    /\ calls[4].sizeY = 1

\* the boxes the detector adapter returned, tile after tile, each moved by the
\* origin (xLeft, yTop) of its tile
RECURSIVE ExpectedGlobal(_)
ExpectedGlobal(cs) ==
    IF cs = <<>> THEN <<>>
    ELSE LET c == Head(cs)
         IN  [k \in 1..Len(c.boxes) |->
                <<c.boxes[k][1] + c.xLeft, c.boxes[k][2] + c.yTop,
                  c.boxes[k][3] + c.xLeft, c.boxes[k][4] + c.yTop>>]
             \o ExpectedGlobal(Tail(cs))

StubBox == <<0, 0, 10, 10>>

\* C2: every tile-local box (x1, y1, x2, y2) returned for the tile at column j
\* and row i is accumulated as (x1 + j, y1 + i, x2 + j, y2 + i); on a 2050 x
\* 2050 raster whose every tile returned (0,0,10,10) the accumulated boxes are
\* (0,0,10,10), (1025,0,1035,10), (0,1025,10,1035), (1025,1025,1035,1035).
C2_OffsetByTileOrigin ==
    /\ pc \in {"scan", "write"} =>
          /\ Len(all_detections) >= 1
          /\ Tail(all_detections) = ExpectedGlobal(calls)
    /\ (/\ pc = "write"
        /\ size_column = 2050
        /\ size_row = 2050
        /\ \A k \in 1..Len(calls) : calls[k].boxes = <<StubBox>>) =>
          Tail(all_detections) = << <<0, 0, 10, 10>>, <<1025, 0, 1035, 10>>,
                                    <<0, 1025, 10, 1035>>, <<1025, 1025, 1035, 1035>> >>

\* the 2050 x 2050 scenario has run
C2_Witness ==
    /\ pc = "write"
    /\ size_column = 2050
    /\ size_row = 2050
    /\ Len(calls) = 4
    /\ \A k \in 1..Len(calls) : calls[k].boxes = <<StubBox>>
    /\ all_detections[3] = <<1025, 0, 1035, 10>>
    /\ all_detections[4] = <<0, 1025, 10, 1035>>

\* the tiles were scanned row after row, and left to right inside a row
RowMajor ==
    \A a, b \in 1..Len(calls) :
        a < b => \/ calls[a].yTop < calls[b].yTop
                 \/ calls[a].yTop = calls[b].yTop /\ calls[a].xLeft < calls[b].xLeft

Supported == dataset.kind # "None"

\* C3: a completed run on a supported raster has written exactly one extent
\* row, at index 0, then one point row per accumulated detection, in the
\* order of accumulation: tiles row-major, and inside a tile the order the
\* detector adapter returned; no detection is dropped, doubled or written as
\* the extent row.
C3_ExtentThenOnePointPerDetection ==
    /\ (pc = "returned" /\ Supported) => csv_file.exists
    /\ csv_file.exists =>
          LET rows   == csv_file.rows
              global == ExpectedGlobal(calls)
          IN  /\ ScanComplete
              /\ RowMajor
              /\ Len(rows) = 1 + Len(global)
              /\ rows[1] = ExtentRow(dataset, <<0, 0, size_column - 1, size_row - 1>>)
              /\ \A k \in 1..Len(global) :
                    rows[k + 1] = PointRow(dataset, global[k], resolution)

\* a four-tile run has written its rows, detections of several tiles among them
C3_Witness ==
    /\ pc = "returned"
    /\ csv_file.exists
    /\ Len(calls) = 4
    /\ Len(calls[1].boxes) = 2
    /\ Len(calls[2].boxes) = 0
    /\ Len(calls[4].boxes) = 1
    /\ Len(csv_file.rows) >= 4

\* outside the geographic range: latitude outside [-90, 90] or longitude
\* outside [-180, 180]; p is (x, y) = (longitude, latitude)
OutOfGeoRange(p) ==
    \/ p[1] > Deg(180) \/ p[1] < Deg(-180)
    \/ p[2] > Deg(90)  \/ p[2] < Deg(-90)

\* C4: row 0 holds pixelToGeo(0, 0) and pixelToGeo(W-1, H-1); when either
\* corner is out of the geographic range both are converted with utmToLatLng,
\* and when neither is, neither is converted.
C4_ExtentFallbackOnEitherCorner ==
    csv_file.exists =>
        LET ul == xyToLatLonFunc(dataset, 0, 0)
            br == xyToLatLonFunc(dataset, size_column - 1, size_row - 1)
        IN  csv_file.rows[1] =
                IF OutOfGeoRange(ul) \/ OutOfGeoRange(br)
                THEN utmToLatLng(48, ul[1], ul[2]) \o utmToLatLng(48, br[1], br[2])
                ELSE <<Num(ul[1]), Num(ul[2]), Num(br[1]), Num(br[2])>>

\* C5: a point row is converted with utmToLatLng only when its own centroid
\* is out of the geographic range; a centroid that is a valid longitude and
\* latitude, such as (105, 20), is written as it is.
C5_PointFallbackOnlyOutOfRange ==
    csv_file.exists =>
        \A k \in 2..Len(all_detections) :
            LET d == all_detections[k]
                c == xyToLatLonFunc(dataset, (d[1] + d[3]) \div 2, (d[2] + d[4]) \div 2)
            IN  SubSeq(csv_file.rows[k], 1, 2) =
                    IF OutOfGeoRange(c) THEN utmToLatLng(48, c[1], c[2])
                    ELSE <<Num(c[1]), Num(c[2])>>

\* os.path.splitext: what follows the last dot of the basename, nothing when
\* the basename has no dot or only a leading one
Extension(path) ==
    LET base == basename(path)
        k    == LastIndexOf(base, ".")
    IN  IF k <= 1 THEN <<>> ELSE SubSeq(base, k + 1, Len(base))

\* the run reported the file type and did nothing else
StoppedAsUnsupported ==
    /\ pc \in {"returned", "exited"}
    /\ stdout = << <<"File type not supported", file_type(image_path)>> >>
    /\ dataset.kind = "None"
    /\ calls = <<>>
    /\ all_detections = <<>>
    /\ ~csv_file.exists
    /\ ~vis_file

\* C6 as stated: for a path whose extension is none of tif, TIF, tiff, TIFF,
\* dim, DIM the run reports the unsupported format and stops: no raster is
\* opened, no tile read, no detector call, no record file, no preview.
C6_Original ==
    (pc # "start" /\ Extension(image_path) \notin TiffTypes \cup DimTypes)
        => StoppedAsUnsupported

\* C6 amended: the same for every path whose file type, the text after the
\* last dot of the basename or the whole basename when it has no dot, is none
\* of tif, TIF, tiff, TIFF, dim, DIM.
C6_UnsupportedStopsAtOnce ==
    (pc # "start" /\ file_type(image_path) \notin TiffTypes \cup DimTypes)
        => StoppedAsUnsupported

\* a run on scene.tif.bak has ended
C6_Witness ==
    /\ pc = "exited"
    /\ image_path = <<"scene", ".", "tif", ".", "bak">>
    /\ stdout # <<>>
    /\ ~csv_file.exists

\* C7: a run on an unsupported file type ends with a non-zero status, a run
\* on a supported raster that wrote its rows with zero detections ends with 0.
C7_UnsupportedExitsNonZero ==
    pc = "exited" =>
        /\ file_type(image_path) \notin TiffTypes \cup DimTypes => exit_code # 0
        /\ (csv_file.exists /\ Len(all_detections) = 1) => exit_code = 0

\* position k of the result is the raw detection at position idx[k]
SameDetection(raw, idx, k) ==
    /\ image_boxes[k] = [c \in 1..4 |-> raw.boxes[idx[k]][c] \div raw.scale]
    /\ image_scores[k] = raw.scores[idx[k]]
    /\ image_labels[k] = raw.labels[idx[k]]

C9_NoRecordFileUnlessScanComplete ==
    /\ csv_file.exists => (ScanComplete /\ pc \in {"returned", "exited"} /\ exit_code # 1)
    /\ (pc \in {"start", "scan", "write", "raised"} \/ exit_code = 1 \/ ~ScanComplete)
          => (~csv_file.exists /\ csv_file.rows = <<>> /\ ~vis_file)

\* a run was aborted at its third tile and has ended
C9_Witness ==
    /\ pc = "exited"
    /\ exit_code = 1
    /\ Len(calls) = 2
    /\ NumTiles(size_column, size_row) = 4
    /\ ~csv_file.exists

\* C10: every accumulated detection has x1 <= x2, y1 <= y2 and lies inside
\* [0, imageWidth] x [0, imageHeight].
C10_DetectionsInsideImage ==
    \A k \in 2..Len(all_detections) :
        LET d == all_detections[k]
        IN  /\ d[1] <= d[3]
            /\ d[2] <= d[4]
            /\ 0 <= d[1] /\ d[3] <= size_column
            /\ 0 <= d[2] /\ d[4] <= size_row

====
